---- MODULE Spec2Model ----
(***************************************************************************)
(* State-machine model of examples/cpp/aot_inductor/bert/src/              *)
(* bert_handler.cc: BertCppHandler::LoadModel, Preprocess, Inference and   *)
(* Postprocess, with the helpers LoadJsonFile and GetJsonValue.            *)
(***************************************************************************)
EXTENDS Integers, Sequences, FiniteSets, TLC

(***************************************************************************)
(* Bounds of the model and constants of the program.                       *)
(***************************************************************************)

\* Largest number of requests in an enumerated batch.
MaxBatch == 2

\* Number of requests in the long batches of SpecWide.
WideLen == 257

\* The max_length a config file of the model carries.
ConfigMaxLength == 2

\* Largest number of requests in a batch of two calls in flight.
PairMaxBatch == 2

\* Number of values of the row cursor `uint8_t idx`.
RowCursorRange == 256

\* Token id that TokenToId("<pad>") returns in the modelled vocabulary.
PadId == 0

(***************************************************************************)
(* Strings, JSON documents and the files of the model directory.           *)
(***************************************************************************)

Digit(d) == CASE d = 0 -> "0" [] d = 1 -> "1" [] d = 2 -> "2" [] d = 3 -> "3"
              [] d = 4 -> "4" [] d = 5 -> "5" [] d = 6 -> "6" [] d = 7 -> "7"
              [] d = 8 -> "8" [] d = 9 -> "9"

RECURSIVE Decimal(_)
Decimal(n) == IF n < 10 THEN <<Digit(n)>>
              ELSE Decimal(n \div 10) \o <<Digit(n % 10)>>

\* std::to_string(int): the decimal digits, a minus sign first when negative.
StdToString(n) == IF n < 0 THEN <<"-">> \o Decimal(-n) ELSE Decimal(n)

RequiredKeys == {"max_length", "tokenizer_path", "model_so_path"}

\* A JSON object is a function from its keys to their values.
HasKey(json, key) == key \in DOMAIN json

\* A file that is absent, and a file with its parsed content.
Missing == [present |-> FALSE]

File(content) == [present |-> TRUE, content |-> content]

\* A null unique_ptr / shared_ptr, and one that owns a value.
Null == [null |-> TRUE]

Ptr(value) == [null |-> FALSE, value |-> value]

\* index_to_name.json: class index (as a string) -> label.
MappingFiles ==
  { [k \in {StdToString(0), StdToString(1)} |->
        IF k = StdToString(0) THEN "negative" ELSE "positive"],
    [k \in {StdToString(0)} |-> "negative"] }

ConfigValue(key, ml) == CASE key = "max_length" -> ml
                          [] key = "tokenizer_path" -> "tokenizer.json"
                          [] key = "model_so_path" -> "bert.so"

\* config.json: every subset of the required keys.
ConfigFiles ==
  { [k \in ks |-> ConfigValue(k, ConfigMaxLength)] : ks \in SUBSET RequiredKeys }

\* The outcome of reading a freed buffer: its old contents or clobbered ones.
FreedOutcomes == {"intact", "clobbered"}

Devices == {"cpu", "cuda"}

\* Score vectors the engine writes into a row of its output tensor.
OutVectors == { <<5, 2>>, <<2, 5>>, <<3, 3>> }

\* What the compiled model computes: any score vector per row, or one fixed vector.
AnyArtifacts == { OutVectors }

ConstArtifacts == { {v} : v \in OutVectors }

ModelDirs(arts) ==
  [ mapping : {File(m) : m \in MappingFiles} \cup {Missing},
    config : {File(c) : c \in ConfigFiles} \cup {Missing},
    tokenizer : {File("vocab"), Missing},
    artifact : {File(a) : a \in arts} \cup {Missing} ]

(***************************************************************************)
(* LoadJsonFile and GetJsonValue.  Both end in a bare `throw;` with no     *)
(* exception being handled, which calls std::terminate.                    *)
(***************************************************************************)

\* Outcome of a call: it returned a value, it threw an exception of the given
\* kind, or it terminated the process.
Returned(v) == [how |-> "returned", value |-> v]

Threw(kind) == [how |-> "threw", kind |-> kind]

Terminated == [how |-> "terminated"]

LoadJsonFile(file) == IF file.present THEN Returned(file.content) ELSE Terminated

GetJsonValue(json, key) == IF HasKey(json, key) THEN Returned(json[key]) ELSE Terminated

(***************************************************************************)
(* Requests, responses and the tokenizer.                                  *)
(***************************************************************************)

\* torchserve::PayloadType keys used by Preprocess.
kPARAMETER_NAME_DATA == "data"

kHEADER_NAME_DATA_TYPE == "data_dtype"

kPARAMETER_NAME_BODY == "body"

kHEADER_NAME_BODY_TYPE == "body_dtype"

\* A map with one more (or one replaced) entry: m[k] = v.
Put(m, k, v) == [x \in (DOMAIN m) \cup {k} |-> IF x = k THEN v ELSE m[x]]

EmptyMap == [x \in {} |-> 0]

\* Payload bytes: 97 'a' (an ordinary word), 112 'p' (the text of the pad
\* token itself), 120 'x' (text on which the tokenizer fails).
Chr(b) == CASE b = 97 -> "a" [] b = 112 -> "p" [] b = 120 -> "x"

\* torchserve::Converter::VectorToStr: the bytes as a string.
VectorToStr(bytes) == [i \in 1..Len(bytes) |-> Chr(bytes[i])]

\* The tokenizer's vocabulary.
TokenToId(token) == CASE token = "<pad>" -> PadId
                      [] token = "p" -> PadId
                      [] token = "a" -> 7

\* tokenizer_->Encode: one id per word, or a runtime failure.
Encode(msg) ==
  IF \E i \in 1..Len(msg) : msg[i] = "x"
    THEN Threw("runtime_error")
    ELSE Returned([i \in 1..Len(msg) |-> TokenToId(msg[i])])

RECURSIVE Repeat(_, _)
Repeat(x, n) == IF n <= 0 THEN <<>> ELSE Append(Repeat(x, n - 1), x)

\* PadTokenIds with the padding put in front of the sequence.
PadTokenIdsLeft(ids, max_length) ==
  IF Len(ids) < max_length
    THEN Repeat(PadId, max_length - Len(ids)) \o ids
    ELSE ids

\* Lines 111-116: an over-length sequence is only logged, a shorter one is
\* right-padded with the pad token id, one of exactly max_length is kept.
PadTokenIds(ids, max_length) ==
  IF Len(ids) < max_length
    THEN ids \o Repeat(TokenToId("<pad>"), max_length - Len(ids))
    ELSE ids

\* Line 118: torch::from_blob(token_ids.data(), max_length_): a view of the
\* first max_length elements of the vector's buffer.
FromBlob(buffer, max_length) == SubSeq(buffer, 1, max_length)

\* The contents a clobbered buffer reads as.
Clobbered(row) == [i \in 1..Len(row) |-> -1]

\* What a view reads once the vector it aliases has been destroyed.
ReadFreed(row, outcome) == IF outcome = "intact" THEN row ELSE Clobbered(row)

\* torchserve::InferenceResponse(request_id): no status has been set.
NewResponse(request_id) ==
  [request_id |-> request_id, set |-> FALSE, code |-> 0, dtype |-> "", msg |-> ""]

\* InferenceResponse::SetResponse(code, "data_type", dtype, msg).
SetResponse(response, code, dtype, msg) ==
  [response EXCEPT !.set = TRUE, !.code = code, !.dtype = dtype, !.msg = msg]

\* Lines 85-94: where the payload and its type header are looked up.  The
\* body pair is consulted only when the data parameter is absent.
FindPayload(request) ==
  IF kPARAMETER_NAME_DATA \in DOMAIN request.parameters
    THEN [data_it |-> kPARAMETER_NAME_DATA,
          dtype_found |-> kHEADER_NAME_DATA_TYPE \in DOMAIN request.headers]
    ELSE [data_it |-> IF kPARAMETER_NAME_BODY \in DOMAIN request.parameters
                        THEN kPARAMETER_NAME_BODY ELSE "end",
          dtype_found |-> kHEADER_NAME_BODY_TYPE \in DOMAIN request.headers]

\* EmptyPayload that does not test the type header.
EmptyPayloadNoHeaderCheck(request) == FindPayload(request).data_it = "end"

\* Lines 96-97: the request is answered with "Empty payload".
EmptyPayload(request) ==
  FindPayload(request).data_it = "end" \/ ~FindPayload(request).dtype_found

\* Argmax returning the index of the first minimal value.
ArgmaxOfMinimum(v) ==
  CHOOSE i \in 0..(Len(v) - 1) :
    /\ \A j \in 0..(Len(v) - 1) : v[j + 1] >= v[i + 1]
    /\ \A j \in 0..(i - 1) : v[j + 1] > v[i + 1]

\* torch::argmax over one row: the index of the first maximal value.
Argmax(v) ==
  CHOOSE i \in 0..(Len(v) - 1) :
    /\ \A j \in 0..(Len(v) - 1) : v[j + 1] <= v[i + 1]
    /\ \A j \in 0..(i - 1) : v[j + 1] < v[i + 1]

(***************************************************************************)
(* The batches a caller hands to Preprocess.                               *)
(***************************************************************************)

Request(id, parameters, headers) ==
  [request_id |-> id, parameters |-> parameters, headers |-> headers]

DataPair(text) ==
  [parameters |-> (kPARAMETER_NAME_DATA :> text),
   headers |-> (kHEADER_NAME_DATA_TYPE :> "text")]

\* The payload texts: empty, one word, the pad token's text, exactly
\* max_length words, one word too many, and text the tokenizer fails on.
Texts(max_length) ==
  { <<>>, <<97>>, <<112>>, Repeat(97, max_length), Repeat(97, max_length + 1), <<120>> }

\* The shapes of a request: its parameters and headers.
Shapes(max_length) ==
  { DataPair(t) : t \in Texts(max_length) } \cup
  { [parameters |-> EmptyMap, headers |-> EmptyMap],
    [parameters |-> (kPARAMETER_NAME_BODY :> <<97>>),
     headers |-> (kHEADER_NAME_BODY_TYPE :> "text")],
    [parameters |-> (kPARAMETER_NAME_BODY :> <<97>>), headers |-> EmptyMap],
    [parameters |-> (kPARAMETER_NAME_DATA :> <<97>>) @@ (kPARAMETER_NAME_BODY :> <<112>>),
     headers |-> (kHEADER_NAME_BODY_TYPE :> "text")],
    [parameters |-> (kPARAMETER_NAME_DATA :> <<97>>) @@ (kPARAMETER_NAME_BODY :> <<112>>),
     headers |-> (kHEADER_NAME_DATA_TYPE :> "text") @@ (kHEADER_NAME_BODY_TYPE :> "text")] }

RequestIds == {1, 2}

Requests(max_length) ==
  { Request(id, sh.parameters, sh.headers) : id \in RequestIds, sh \in Shapes(max_length) }

RECURSIVE SeqsUpTo(_, _)
SeqsUpTo(S, n) ==
  IF n = 0 THEN { <<>> }
  ELSE LET shorter == SeqsUpTo(S, n - 1)
       IN shorter \cup { Append(q, x) : q \in { r \in shorter : Len(r) = n - 1 }, x \in S }

\* Every batch of at most MaxBatch requests.
Batches(max_length) == SeqsUpTo(Requests(max_length), MaxBatch)

\* A request of a long batch: one word, its position as its id; with `gap`,
\* the first request carries no payload.
WideRequest(n, gap) ==
  IF gap /\ n = 1
    THEN Request(n, EmptyMap, EmptyMap)
    ELSE Request(n, DataPair(<<97>>).parameters, DataPair(<<97>>).headers)

\* The requests lo..hi of a long batch.
RECURSIVE WideRange(_, _, _)
WideRange(lo, hi, gap) ==
  IF lo > hi THEN <<>>
  ELSE IF lo = hi THEN <<WideRequest(lo, gap)>>
  ELSE LET mid == (lo + hi) \div 2
       IN WideRange(lo, mid, gap) \o WideRange(mid + 1, hi, gap)

WideBatch(n, gap) == WideRange(1, n, gap)

\* Long batches: WideLen requests, more than the row cursor has values.
WideBatches == { WideBatch(WideLen, gap) : gap \in BOOLEAN }

(***************************************************************************)
(* State.                                                                  *)
(***************************************************************************)

VARIABLES
  pc,             \* where the handler is: load, ready, preprocess, inference, ...
  model_dir,      \* the files of load_model_request->model_dir
  device,         \* GetTorchDevice(load_model_request)
  freed_read,     \* what this build reads from a freed buffer
  mapping_json_,  \* handler fields set by LoadModel
  config_json_,
  max_length_,
  tokenizer_,
  model,          \* the engine handle LoadModel returns
  request_batch,  \* the caller's batch
  response_batch, \* request_id -> Response
  idx_to_req_id,  \* .first: the joined request ids, .second: row -> request_id
  idx,            \* Preprocess's row cursor (uint8_t)
  pos,            \* position of the next request of the batch loop
  tokens_ivalue,  \* Preprocess's list of row tensors
  token_ids,      \* the live token vector of the current loop iteration
  batch_ivalue,   \* the value Preprocess returns
  runner,         \* the variant Inference casts the model handle to
  data,           \* the output tensor Postprocess reads
  kv,             \* the tracker key Postprocess visited last
  out,            \* the output row Postprocess read for that key
  y_hat,          \* the class predicted for that key
  run_calls,      \* how often this batch call invoked runner->run
  parked,         \* the other in-flight batch call: its position and locals
  log             \* TS_LOG / TS_LOGF lines

handler_vars == <<mapping_json_, config_json_, max_length_, tokenizer_, model>>

env_vars == <<model_dir, device, freed_read>>

batch_vars == <<request_batch, response_batch, idx_to_req_id, idx, pos,
                tokens_ivalue, token_ids, batch_ivalue, runner, data, kv, out, y_hat,
                run_calls>>

vars == <<pc, env_vars, handler_vars, batch_vars, parked, log>>

\* A batch call that has not started: the handler's caller is about to hand
\* over a batch.  Every field is a parameter or a local of the three stages.
NewCall ==
  [pc |-> "ready", request_batch |-> <<>>, response_batch |-> EmptyMap,
   idx_to_req_id |-> [first |-> <<>>, second |-> EmptyMap], idx |-> 0, pos |-> 1,
   tokens_ivalue |-> <<>>, token_ids |-> Null, batch_ivalue |-> Null,
   runner |-> Null, data |-> Null, kv |-> -1, out |-> <<>>, y_hat |-> -1,
   run_calls |-> 0]

LogLine(event, subject) == [event |-> event, subject |-> subject]

InitWith(artifacts) ==
  /\ pc = "load"
  /\ model_dir \in ModelDirs(artifacts)
  /\ device \in Devices
  /\ freed_read \in FreedOutcomes
  /\ mapping_json_ = Null
  /\ config_json_ = Null
  /\ max_length_ = 0
  /\ tokenizer_ = Null
  /\ model = Null
  /\ request_batch = <<>>
  /\ response_batch = EmptyMap
  /\ idx_to_req_id = [first |-> <<>>, second |-> EmptyMap]
  /\ idx = 0
  /\ pos = 1
  /\ tokens_ivalue = <<>>
  /\ token_ids = Null
  /\ batch_ivalue = Null
  /\ runner = Null
  /\ data = Null
  /\ kv = -1
  /\ out = <<>>
  /\ y_hat = -1
  /\ run_calls = 0
  /\ parked = NewCall
  /\ log = <<>>

Init == InitWith(AnyArtifacts)

InitWide == InitWith(ConstArtifacts)

(***************************************************************************)
(* LoadModel (lines 24-66).                                                *)
(***************************************************************************)

\* The handler fields and the outcome of LoadModel for the files `dir` on
\* device `dev`, statement by statement: a field is assigned only when the
\* statements before it completed.
LoadModelResult(dir, dev) ==
  LET none == [pc |-> "terminated", mapping_json_ |-> Null, config_json_ |-> Null,
               max_length_ |-> 0, tokenizer_ |-> Null, model |-> Null,
               log |-> <<>>]
      mapping == LoadJsonFile(dir.mapping)
      config == LoadJsonFile(dir.config)
  IN
  IF mapping.how = "terminated"
    THEN [none EXCEPT !.log = <<LogLine("not found", "index_to_name.json")>>]
  ELSE LET s1 == [none EXCEPT !.mapping_json_ = Ptr(mapping.value)] IN
  IF config.how = "terminated"
    THEN [s1 EXCEPT !.log = <<LogLine("not found", "config.json")>>]
  ELSE LET s2 == [s1 EXCEPT !.config_json_ = Ptr(config.value)] IN
  IF GetJsonValue(config.value, "max_length").how = "terminated"
    THEN [s2 EXCEPT !.log = <<LogLine("Required field not found", "max_length")>>]
  ELSE LET s3 == [s2 EXCEPT !.max_length_ = GetJsonValue(config.value, "max_length").value] IN
  IF GetJsonValue(config.value, "tokenizer_path").how = "terminated"
    THEN [s3 EXCEPT !.log = <<LogLine("Required field not found", "tokenizer_path")>>]
  ELSE IF LoadJsonFile(dir.tokenizer).how = "terminated"
    THEN [s3 EXCEPT !.log = <<LogLine("not found", "tokenizer.json")>>]
  ELSE LET s4 == [s3 EXCEPT !.tokenizer_ = Ptr(LoadJsonFile(dir.tokenizer).value)] IN
  IF GetJsonValue(config.value, "model_so_path").how = "terminated"
    THEN [s4 EXCEPT !.log = <<LogLine("Required field not found", "model_so_path")>>]
  ELSE IF ~dir.artifact.present
    \* the runner's constructor throws: caught, logged and rethrown (lines 55-65)
    THEN [s4 EXCEPT !.pc = "load_failed",
                    !.log = <<LogLine("loading the model", "error")>>]
  ELSE [s4 EXCEPT !.pc = "ready",
                  !.model = Ptr([variant |-> IF dev = "cuda"
                                               THEN "AOTIModelContainerRunnerCuda"
                                               ELSE "AOTIModelContainerRunnerCpu",
                                 computes |-> dir.artifact.content])]

LoadModel ==
  /\ pc = "load"
  /\ LET r == LoadModelResult(model_dir, device) IN
       /\ pc' = r.pc
       /\ mapping_json_' = r.mapping_json_
       /\ config_json_' = r.config_json_
       /\ max_length_' = r.max_length_
       /\ tokenizer_' = r.tokenizer_
       /\ model' = r.model
       /\ log' = r.log
  /\ UNCHANGED <<env_vars, batch_vars, parked>>

(***************************************************************************)
(* Preprocess (lines 68-140).                                              *)
(***************************************************************************)

\* Lines 73-76: a caller hands over a batch; the locals are set up.
PreprocessBeginWith(batches) ==
  /\ pc = "ready"
  /\ \E b \in batches :
       /\ request_batch' = b
       /\ response_batch' = EmptyMap
       /\ idx_to_req_id' = [first |-> <<>>, second |-> EmptyMap]
       /\ idx' = 0
       /\ pos' = 1
       /\ tokens_ivalue' = <<>>
       /\ token_ids' = Null
       /\ batch_ivalue' = Null
       /\ run_calls' = 0
  /\ pc' = "preprocess"
  /\ UNCHANGED <<env_vars, handler_vars, runner, data, kv, out, y_hat, parked, log>>

PreprocessBegin == PreprocessBeginWith(Batches(max_length_))

PreprocessBeginWide == PreprocessBeginWith(WideBatches)

\* The row list once the token vector of the previous iteration is destroyed:
\* the last row aliased that vector's buffer.
AfterScopeExit(rows, live, outcome) ==
  IF live.null THEN rows
  ELSE [rows EXCEPT ![Len(rows)] = ReadFreed(@, outcome)]

\* uint8_t idx: idx++ wraps at 256.
NextIdx(i) == (i + 1) % RowCursorRange

\* LoadTensorFailure without the SetResponse call.
LoadTensorFailureUnanswered(response, kind) == response

\* The response and the log line of the catch block that handles `kind`
\* (lines 120-134).
LoadTensorFailure(response, kind) ==
  IF kind = "runtime_error"
    THEN SetResponse(response, 500, "kDATA_TYPE_STRING",
                     "runtime_error, failed to load tensor")
    ELSE SetResponse(response, 500, "kDATA_TYPE_STRING",
                     "c10 error, failed to load tensor")

\* CreateResponse that keeps a Response the batch already holds for the id.
CreateResponseIfAbsent(batch, id) ==
  IF id \in DOMAIN batch THEN batch ELSE Put(batch, id, NewResponse(id))

\* Lines 79-80: (*response_batch)[request.request_id] is assigned a new
\* Response, replacing the one an earlier request of the same id was given.
CreateResponse(batch, id) == Put(batch, id, NewResponse(id))

\* One iteration of the loop of lines 77-135, for the request at `pos`.
PreprocessStep ==
  /\ pc = "preprocess"
  /\ pos <= Len(request_batch)
  /\ LET request == request_batch[pos]
         id == request.request_id
         created == CreateResponse(response_batch, id)
         first == Append(idx_to_req_id.first, id)
         rows == AfterScopeExit(tokens_ivalue, token_ids, freed_read)
         found == FindPayload(request)
     IN
     IF EmptyPayload(request)
       THEN /\ response_batch' =
                 Put(created, id, SetResponse(created[id], 500, "kCONTENT_TYPE_TEXT",
                                              "Empty payload"))
            /\ log' = Append(log, LogLine("Empty payload", id))
            /\ idx_to_req_id' = [idx_to_req_id EXCEPT !.first = first]
            /\ tokens_ivalue' = rows
            /\ token_ids' = Null
            /\ idx' = idx
       ELSE LET msg == VectorToStr(request.parameters[found.data_it])
                encoded == Encode(msg)
            IN
            IF encoded.how = "threw"
              THEN /\ response_batch' =
                        Put(created, id, LoadTensorFailure(created[id], encoded.kind))
                   /\ log' = Append(log, LogLine("Failed to load tensor", id))
                   /\ idx_to_req_id' = [idx_to_req_id EXCEPT !.first = first]
                   /\ tokens_ivalue' = rows
                   /\ token_ids' = Null
                   /\ idx' = idx
              ELSE LET padded == PadTokenIds(encoded.value, max_length_) IN
                   /\ response_batch' = created
                   /\ log' = IF Len(encoded.value) > max_length_
                               THEN Append(log, LogLine("prompt too long", id))
                               ELSE log
                   /\ token_ids' = Ptr(padded)
                   /\ tokens_ivalue' = Append(rows, FromBlob(padded, max_length_))
                   /\ idx_to_req_id' =
                        [first |-> first, second |-> Put(idx_to_req_id.second, idx, id)]
                   /\ idx' = NextIdx(idx)
  /\ pos' = pos + 1
  /\ UNCHANGED <<pc, env_vars, handler_vars, request_batch, batch_ivalue,
                 runner, data, kv, out, y_hat, run_calls, parked>>

\* Lines 136-139: the token tensor and the attention mask are both given the
\* shape {request_batch->size(), max_length_}; the locals go out of scope.
BatchShape(requests, max_length) == [rows |-> Len(requests), cols |-> max_length]

PreprocessReturn ==
  /\ pc = "preprocess"
  /\ pos > Len(request_batch)
  /\ batch_ivalue' = Ptr([tokens |-> BatchShape(request_batch, max_length_),
                          attention_mask |-> BatchShape(request_batch, max_length_)])
  /\ tokens_ivalue' = <<>>
  /\ token_ids' = Null
  /\ pc' = "inference"
  /\ UNCHANGED <<env_vars, handler_vars, request_batch, response_batch,
                 idx_to_req_id, idx, pos, runner, data, kv, out, y_hat,
                 run_calls, parked, log>>

(***************************************************************************)
(* Inference (lines 142-163).                                              *)
(***************************************************************************)

\* RunnerCast without the branch on the device.
RunnerCastToCpu(dev) == "AOTIModelContainerRunnerCpu"

\* Lines 149-154: the variant the model handle is cast to.
RunnerCast(dev) == IF dev = "cuda" THEN "AOTIModelContainerRunnerCuda"
                   ELSE "AOTIModelContainerRunnerCpu"

\* The number of rows an engine returns for a batch of n rows: one per input
\* row, or a malformed output that is one row short.
OutputRows(n) == {n} \cup (IF n > 0 THEN {n - 1} ELSE {})

\* EngineRuns with runner->run called once for each request of the batch.
EngineRunsPerRequest(calls, requests) == calls + Len(requests)

\* Line 156: runner->run is called once, on the tensors of the whole batch.
EngineRuns(calls, requests) == calls + 1

\* runner->run succeeds (lines 156-157).
InferenceOk ==
  /\ pc = "inference"
  /\ runner' = RunnerCast(device)
  /\ run_calls' = EngineRuns(run_calls, request_batch)
  /\ \E n \in OutputRows(batch_ivalue.value.tokens.rows) :
       data' = Ptr([rows |-> n])
  /\ kv' = -1
  /\ pc' = "postprocess"
  /\ UNCHANGED <<env_vars, handler_vars, request_batch, response_batch,
                 idx_to_req_id, idx, pos, tokens_ivalue, token_ids,
                 batch_ivalue, out, y_hat, parked, log>>

\* Control reaches the closing brace of a function that returns a value
\* (line 163): the caller is handed an indeterminate value, or the process
\* stops there.
FlowsOffEnd == {"inference_failed", "terminated"}

\* InferenceFails with a catch block that also answers every tracked request.
InferenceFailsAnswering ==
  /\ pc = "inference"
  /\ runner' = RunnerCast(device)
  /\ run_calls' = EngineRuns(run_calls, request_batch)
  /\ log' = Append(log, LogLine("Failed to apply inference", "batch"))
  /\ response_batch' =
       [r \in DOMAIN response_batch |->
          IF \E k \in DOMAIN idx_to_req_id.second : idx_to_req_id.second[k] = r
            THEN SetResponse(response_batch[r], 500, "kDATA_TYPE_STRING",
                             "failed to apply inference")
            ELSE response_batch[r]]
  /\ pc' \in FlowsOffEnd
  /\ UNCHANGED <<env_vars, handler_vars, request_batch,
                 idx_to_req_id, idx, pos, tokens_ivalue, token_ids,
                 batch_ivalue, data, kv, out, y_hat, parked>>

\* runner->run throws: the error is logged and the function ends without a
\* return statement (lines 158-163).
InferenceFails ==
  /\ pc = "inference"
  /\ runner' = RunnerCast(device)
  /\ run_calls' = EngineRuns(run_calls, request_batch)
  /\ log' = Append(log, LogLine("Failed to apply inference", "batch"))
  /\ pc' \in FlowsOffEnd
  /\ UNCHANGED <<env_vars, handler_vars, request_batch, response_batch,
                 idx_to_req_id, idx, pos, tokens_ivalue, token_ids,
                 batch_ivalue, data, kv, out, y_hat, parked>>

Inference == InferenceOk \/ InferenceFails

(***************************************************************************)
(* Postprocess (lines 165-197).                                            *)
(***************************************************************************)

\* std::map iterates its keys in ascending order: the keys after the last
\* one visited.
Remaining == { k \in DOMAIN idx_to_req_id.second : k > kv }

NextKey == CHOOSE k \in Remaining : \A j \in Remaining : k <= j

\* Lines 172-179 for one row of the output tensor: the response is set
\* to the label, unless the lookup terminates the process.
Decode(response, row, mapping) ==
  LET predicted_idx == StdToString(Argmax(row))
      label == GetJsonValue(mapping, predicted_idx)
  IN IF label.how = "terminated"
       THEN [how |-> "terminated", response |-> response]
       ELSE [how |-> "returned",
             response |-> SetResponse(response, 200, "kDATA_TYPE_STRING", label.value)]

\* PostprocessFailure without the SetResponse call.
PostprocessFailureUnanswered(response, kind) == response

\* The response the catch block that handles `kind` sets (lines 180-195).
PostprocessFailure(response, kind) ==
  IF kind = "runtime_error"
    THEN SetResponse(response, 500, "kDATA_TYPE_STRING",
                     "runtime_error, failed to postprocess tensor")
    ELSE SetResponse(response, 500, "kDATA_TYPE_STRING",
                     "c10 error, failed to postprocess tensor")

\* TrackedId that takes the id of the request at the row's batch position.
TrackedIdByPosition(k) == request_batch[k + 1].request_id

\* kv.second of the tracker entry with key k: the id whose Response lines
\* 175, 182 and 190 look up.
TrackedId(k) == idx_to_req_id.second[k]

\* One iteration of the loop of lines 170-196.
PostprocessStep ==
  /\ pc = "postprocess"
  /\ Remaining # {}
  /\ LET k == NextKey
         id == TrackedId(k)
     IN
     /\ kv' = k
     /\ IF k >= data.value.rows
          \* data[kv.first] is out of range: a c10::Error, handled at line 187
          THEN /\ response_batch' =
                    Put(response_batch, id,
                        PostprocessFailure(response_batch[id], "c10::Error"))
               /\ log' = Append(log, LogLine("Failed to postprocess tensor", id))
               /\ out' = out
               /\ y_hat' = y_hat
               /\ pc' = pc
          ELSE \E row \in model.value.computes :
                 LET d == Decode(response_batch[id], row, mapping_json_.value) IN
                 /\ out' = row
                 /\ y_hat' = Argmax(row)
                 /\ response_batch' = Put(response_batch, id, d.response)
                 /\ log' = IF d.how = "terminated"
                             THEN Append(log, LogLine("Required field not found",
                                                      StdToString(Argmax(row))))
                             ELSE log
                 /\ pc' = IF d.how = "terminated" THEN "terminated" ELSE pc
  /\ UNCHANGED <<env_vars, handler_vars, request_batch, idx_to_req_id, idx, pos,
                 tokens_ivalue, token_ids, batch_ivalue, runner, data,
                 run_calls, parked>>

PostprocessReturn ==
  /\ pc = "postprocess"
  /\ Remaining = {}
  /\ pc' = "done"
  /\ UNCHANGED <<env_vars, handler_vars, batch_vars, parked, log>>

(***************************************************************************)
(* Specifications.                                                         *)
(***************************************************************************)

Next ==
  \/ LoadModel
  \/ PreprocessBegin
  \/ PreprocessStep
  \/ PreprocessReturn
  \/ Inference
  \/ PostprocessStep
  \/ PostprocessReturn

Spec == Init /\ [][Next]_vars

NextWide ==
  \/ LoadModel
  \/ PreprocessBeginWide
  \/ PreprocessStep
  \/ PreprocessReturn
  \/ Inference
  \/ PostprocessStep
  \/ PostprocessReturn

SpecWide == InitWide /\ [][NextWide]_vars

(***************************************************************************)
(* Two batch calls in flight on one handler.  Every stage takes the batch, *)
(* the tracker and the response batch as parameters (lines 68-72, 142-147, *)
(* 165-168) and keeps its cursors in locals, so a second call has its own  *)
(* copy of all of them; the handler's fields, read through `this`, are the *)
(* only state the two calls share.                                         *)
(***************************************************************************)

\* The requests of the batches of two calls in flight.
PairRequests ==
  { Request(1, DataPair(<<97>>).parameters, DataPair(<<97>>).headers),
    Request(2, EmptyMap, EmptyMap) }

PairBatches == SeqsUpTo(PairRequests, PairMaxBatch)

PreprocessBeginPair == PreprocessBeginWith(PairBatches)

\* The position and the locals of the call that is running.
ThisCall ==
  [pc |-> pc, request_batch |-> request_batch, response_batch |-> response_batch,
   idx_to_req_id |-> idx_to_req_id, idx |-> idx, pos |-> pos,
   tokens_ivalue |-> tokens_ivalue, token_ids |-> token_ids,
   batch_ivalue |-> batch_ivalue, runner |-> runner, data |-> data, kv |-> kv,
   out |-> out, y_hat |-> y_hat, run_calls |-> run_calls]

\* ResumeIdx with the row cursor kept in the handler, one for all calls.
ResumeIdxOfHandler(own, running) == running

\* Line 76: `uint8_t idx` is a local of Preprocess, so a call that resumes
\* finds the cursor it left, whatever the call that ran meanwhile did to its
\* own.
ResumeIdx(own, running) == own

\* The scheduler lets the other call run: the running call keeps its
\* position and locals, the other one resumes with its own.
Switch ==
  /\ pc \in {"ready", "preprocess", "inference", "postprocess", "done"}
  /\ parked.pc \in {"ready", "preprocess", "inference", "postprocess"}
  /\ parked' = ThisCall
  /\ pc' = parked.pc
  /\ request_batch' = parked.request_batch
  /\ response_batch' = parked.response_batch
  /\ idx_to_req_id' = parked.idx_to_req_id
  /\ idx' = ResumeIdx(parked.idx, idx)
  /\ pos' = parked.pos
  /\ tokens_ivalue' = parked.tokens_ivalue
  /\ token_ids' = parked.token_ids
  /\ batch_ivalue' = parked.batch_ivalue
  /\ runner' = parked.runner
  /\ data' = parked.data
  /\ kv' = parked.kv
  /\ out' = parked.out
  /\ y_hat' = parked.y_hat
  /\ run_calls' = parked.run_calls
  /\ UNCHANGED <<env_vars, handler_vars, log>>

NextPair ==
  \/ LoadModel
  \/ PreprocessBeginPair
  \/ PreprocessStep
  \/ PreprocessReturn
  \/ Inference
  \/ PostprocessStep
  \/ PostprocessReturn
  \/ Switch

SpecPair == InitWide /\ [][NextPair]_vars

(***************************************************************************)
(* Properties.                                                             *)
(***************************************************************************)

Tracker == idx_to_req_id.second

RequestAt(p) == request_batch[p]

\* A request carries a complete parameter/header pair.
HasDataPair(request) ==
  /\ kPARAMETER_NAME_DATA \in DOMAIN request.parameters
  /\ kHEADER_NAME_DATA_TYPE \in DOMAIN request.headers

HasBodyPair(request) ==
  /\ kPARAMETER_NAME_BODY \in DOMAIN request.parameters
  /\ kHEADER_NAME_BODY_TYPE \in DOMAIN request.headers

\* The step taken is one iteration of the Preprocess loop, for RequestAt(pos).
IsPreprocessStep == pc = "preprocess" /\ pos' = pos + 1

\* The step taken is one iteration of the Postprocess loop, for the key kv'.
IsPostprocessStep == pc = "postprocess" /\ kv' # kv

\* The Preprocess loop is left only after the last request of the batch.
LoopRunsToEnd == (pc = "preprocess" /\ pc' # "preprocess") => pos > Len(request_batch)

\* C1: once Preprocess, a successful Inference and Postprocess have all run,
\* every request_id of the input batch has a Response in the response batch
\* whose status is 200 or 500, never the untouched placeholder.
C1_EveryRequestAnswered ==
  pc = "done" =>
    \A p \in 1..Len(request_batch) :
      /\ RequestAt(p).request_id \in DOMAIN response_batch
      /\ response_batch[RequestAt(p).request_id].set
      /\ response_batch[RequestAt(p).request_id].code \in {200, 500}

\* C2: row correspondence.  When Preprocess appends a request's token
\* sequence as row i of the token list, the tracker entry i it writes names
\* that request and no other entry is rewritten; when Postprocess decodes
\* row i it writes only the Response of the request_id of tracker entry i.
C2_RowCorrespondence ==
  [][ /\ (IsPreprocessStep /\ Len(tokens_ivalue') = Len(tokens_ivalue) + 1) =>
           /\ Len(tokens_ivalue) \in DOMAIN Tracker'
           /\ Tracker'[Len(tokens_ivalue)] = RequestAt(pos).request_id
           /\ \A k \in DOMAIN Tracker : Tracker'[k] = Tracker[k]
      /\ IsPostprocessStep =>
           \A r \in DOMAIN response_batch :
             r # Tracker[kv'] => response_batch'[r] = response_batch[r]
    ]_vars

\* C3: when Postprocess decodes a tracker entry (row i, request_id r) whose
\* predicted class has an entry in the label mapping, it sets r's Response
\* to status 200 with body LabelMapping[str(c)], c an index of a maximal
\* score of output row i.
C3_LabelOfArgmax ==
  [][ (/\ IsPostprocessStep
       /\ kv' < data.value.rows
       /\ HasKey(mapping_json_.value, StdToString(y_hat')))
      => /\ pc' = "postprocess"
         /\ response_batch'[Tracker[kv']].set
         /\ response_batch'[Tracker[kv']].code = 200
         /\ \A j \in 1..Len(out') : out'[j] <= out'[y_hat' + 1]
         /\ response_batch'[Tracker[kv']].msg = mapping_json_.value[StdToString(y_hat')]
    ]_vars

\* C3 witness: a row whose second score is the larger was decoded to the
\* label of class 1.
C3_Witness ==
  /\ pc = "postprocess"
  /\ kv >= 0
  /\ out = <<2, 5>>
  /\ response_batch[Tracker[kv]].code = 200
  /\ response_batch[Tracker[kv]].msg = "positive"

\* C4: a request with neither payload key pair gets, in its iteration of the
\* Preprocess loop, a Response with status 500 and the "Empty payload"
\* message and no tracker row, and the loop goes on to every later request.
C4_MissingPayload ==
  [][ /\ (/\ IsPreprocessStep
          /\ ~HasDataPair(RequestAt(pos))
          /\ ~HasBodyPair(RequestAt(pos)))
         => /\ response_batch'[RequestAt(pos).request_id].set
            /\ response_batch'[RequestAt(pos).request_id].code = 500
            /\ response_batch'[RequestAt(pos).request_id].msg = "Empty payload"
            /\ Tracker' = Tracker
            /\ idx' = idx
            /\ Len(tokens_ivalue') = Len(tokens_ivalue)
            /\ pc' = "preprocess"
      /\ LoopRunsToEnd
    ]_vars

\* C4 witness: the first request had no payload and was answered 500, and
\* the request after it was given row 0.
C4_Witness ==
  /\ pc = "preprocess"
  /\ pos = 3
  /\ ~HasDataPair(RequestAt(1)) /\ ~HasBodyPair(RequestAt(1))
  /\ RequestAt(1).request_id # RequestAt(2).request_id
  /\ response_batch[RequestAt(1).request_id].code = 500
  /\ DOMAIN Tracker = {0}
  /\ Tracker[0] = RequestAt(2).request_id

\* C5: the token tensor Preprocess returns has exactly as many rows as the
\* tracker has entries.
C5_RowsMatchTracker ==
  pc = "inference" =>
    batch_ivalue.value.tokens.rows = Cardinality(DOMAIN Tracker)

\* C6: when Postprocess decodes a row whose predicted class has no entry in
\* the label mapping, the request's Response is set to status 500 and
\* Postprocess keeps running.
C6_LabelMissIs500 ==
  [][ (/\ IsPostprocessStep
       /\ kv' < data.value.rows
       /\ ~HasKey(mapping_json_.value, StdToString(y_hat')))
      => /\ pc' = "postprocess"
         /\ response_batch'[Tracker[kv']].set
         /\ response_batch'[Tracker[kv']].code = 500
    ]_vars

\* The tokenizer's answer for the payload Preprocess reads from a request
\* that has one.
Tokenized(request) ==
  Encode(VectorToStr(request.parameters[FindPayload(request).data_it]))

\* The step taken tokenized RequestAt(pos) into a token sequence.
IsEncodedStep ==
  /\ IsPreprocessStep
  /\ ~EmptyPayload(RequestAt(pos))
  /\ Tokenized(RequestAt(pos)).how = "returned"

LastRow(rows) == rows[Len(rows)]

\* The ids of a row before its first pad token id.
RECURSIVE BeforeFirstPad(_)
BeforeFirstPad(row) ==
  IF row = <<>> \/ Head(row) = PadId THEN <<>>
  ELSE <<Head(row)>> \o BeforeFirstPad(Tail(row))

\* The row is `ids` followed by pad token ids up to max_length, and its ids
\* before the first pad token id are `ids`.
PaddedRoundTrip(ids, row, max_length) ==
  /\ row = ids \o Repeat(PadId, max_length - Len(ids))
  /\ BeforeFirstPad(row) = ids

C8_OverLengthRejected ==
  [][ /\ IsPreprocessStep =>
           \A i \in 1..Len(tokens_ivalue') : Len(tokens_ivalue'[i]) = max_length_
      /\ (/\ IsEncodedStep
          /\ Len(Tokenized(RequestAt(pos)).value) > max_length_)
         => /\ Len(log') = Len(log) + 1
            /\ Len(tokens_ivalue') = Len(tokens_ivalue)
            /\ Tracker' = Tracker
    ]_vars

\* C9: when a required key is absent from the config file, LoadModel ends
\* with an error reported to its caller and no engine handle, not with the
\* process terminated.
C9_MissingKeyIsLoadError ==
  (/\ pc # "load"
   /\ model_dir.mapping.present
   /\ model_dir.config.present
   /\ \E key \in RequiredKeys : ~HasKey(model_dir.config.content, key))
  => (pc = "load_failed" /\ model = Null)

\* C10: when tokenizing a request fails in Preprocess, its Response is set
\* to status 500 with a failed-to-load-tensor message and the row cursor
\* and the tracker are unchanged; every later request is still processed,
\* and one that is tokenized receives the row the cursor names, the cursor
\* moving on by one.
C10_TokenizationFailure ==
  [][ /\ (/\ IsPreprocessStep
          /\ ~EmptyPayload(RequestAt(pos))
          /\ Tokenized(RequestAt(pos)).how = "threw")
         => /\ response_batch'[RequestAt(pos).request_id].set
            /\ response_batch'[RequestAt(pos).request_id].code = 500
            /\ response_batch'[RequestAt(pos).request_id].msg \in
                 { "runtime_error, failed to load tensor",
                   "c10 error, failed to load tensor" }
            /\ idx' = idx
            /\ Tracker' = Tracker
            /\ Len(tokens_ivalue') = Len(tokens_ivalue)
            /\ pc' = "preprocess"
      /\ IsEncodedStep =>
            /\ idx \in DOMAIN Tracker'
            /\ Tracker'[idx] = RequestAt(pos).request_id
            /\ idx' = (idx + 1) % RowCursorRange
      /\ LoopRunsToEnd
    ]_vars

\* C10 witness: tokenizing the first request failed, it was answered 500,
\* and the second request was given row 0.
C10_Witness ==
  /\ pc = "preprocess"
  /\ pos = 3
  /\ ~EmptyPayload(RequestAt(1))
  /\ Tokenized(RequestAt(1)).how = "threw"
  /\ RequestAt(1).request_id # RequestAt(2).request_id
  /\ response_batch[RequestAt(1).request_id].code = 500
  /\ DOMAIN Tracker = {0}
  /\ Tracker[0] = RequestAt(2).request_id
  /\ idx = 1

\* C11: per-row isolation in Postprocess.  When decoding a tracker entry
\* fails with an error the loop catches (its row index is outside the output
\* tensor), that request's Response is set to status 500, no other Response
\* is touched and the loop goes on; every iteration visits the smallest
\* tracker key not yet visited, so no entry is skipped or visited twice, and
\* Postprocess returns only after the last key, every tracker entry's
\* Response being final by then.
C11_PerRowIsolation ==
  [][ /\ (IsPostprocessStep /\ kv' >= data.value.rows)
         => /\ response_batch'[Tracker[kv']].set
            /\ response_batch'[Tracker[kv']].code = 500
            /\ response_batch'[Tracker[kv']].msg \in
                 { "runtime_error, failed to postprocess tensor",
                   "c10 error, failed to postprocess tensor" }
            /\ \A r \in DOMAIN response_batch :
                 r # Tracker[kv'] => response_batch'[r] = response_batch[r]
            /\ pc' = "postprocess"
      /\ IsPostprocessStep
         => /\ kv' \in DOMAIN Tracker
            /\ kv' > kv
            /\ \A k \in DOMAIN Tracker : k > kv => kv' <= k
      /\ (pc = "postprocess" /\ pc' = "done")
         => /\ \A k \in DOMAIN Tracker : k <= kv
            /\ \A k \in DOMAIN Tracker : response_batch'[Tracker[k]].set
    ]_vars

\* C11 witness: the output tensor was one row short; row 0 was decoded to a
\* label, row 1 was answered 500, and Postprocess returned.
C11_Witness ==
  /\ pc = "done"
  /\ DOMAIN Tracker = {0, 1}
  /\ Tracker[0] # Tracker[1]
  /\ data.value.rows = 1
  /\ response_batch[Tracker[0]].code = 200
  /\ response_batch[Tracker[1]].code = 500
  /\ response_batch[Tracker[1]].msg = "c10 error, failed to postprocess tensor"

\* The request ids that have a tracker entry.
TrackedIds == { Tracker[k] : k \in DOMAIN Tracker }

\* The Response is one of the 500s Preprocess writes (lines 99-101, 123-125
\* and 131-133).
SetInPreprocess(response) ==
  /\ response.set
  /\ response.code = 500
  /\ response.msg \in { "Empty payload",
                        "runtime_error, failed to load tensor",
                        "c10 error, failed to load tensor" }

\* The step taken belongs to Inference or to Postprocess.
IsAfterPreprocess == pc \in {"inference", "postprocess"}

\* C12 as stated: a Response that Preprocess set to status 500 is never
\* changed by a step of Inference or Postprocess, for every batch, batches
\* with two requests of the same request_id included.
C12_Preprocess500IsFinal ==
  [][ IsAfterPreprocess =>
        \A r \in DOMAIN response_batch :
          SetInPreprocess(response_batch[r]) => response_batch'[r] = response_batch[r]
    ]_vars

\* C12 as amended: Inference and Postprocess write only to Responses of
\* request_ids that appear in the tracker, so a Response that Preprocess set
\* to status 500 is never changed by them when no request with the same
\* request_id was assigned a row.
C12_UntrackedIsFinal ==
  [][ IsAfterPreprocess =>
        /\ DOMAIN response_batch' = DOMAIN response_batch
        /\ \A r \in DOMAIN response_batch :
             r \notin TrackedIds => response_batch'[r] = response_batch[r]
    ]_vars

\* C12 witness: the first request had no payload and still has its 500
\* after Postprocess answered the second one, which has another id.
C12_Witness ==
  /\ pc = "done"
  /\ Len(request_batch) = 2
  /\ RequestAt(1).request_id \notin TrackedIds
  /\ SetInPreprocess(response_batch[RequestAt(1).request_id])
  /\ RequestAt(2).request_id \in TrackedIds
  /\ response_batch[RequestAt(2).request_id].code = 200

\* The step taken is an Inference call whose engine invocation failed.
IsInferenceFailure == pc = "inference" /\ pc' \in FlowsOffEnd

\* The position of the last request of the batch that carries the id.
LastWithId(id) ==
  CHOOSE p \in 1..Len(request_batch) :
    /\ RequestAt(p).request_id = id
    /\ \A q \in (p + 1)..Len(request_batch) : RequestAt(q).request_id # id

\* Preprocess takes a payload from the request and the tokenizer accepts it.
ReachesRowAssignment(request) ==
  /\ ~EmptyPayload(request)
  /\ Tokenized(request).how = "returned"

\* The failed Inference call only wrote a log line: the response batch and
\* the tracker are as they were and there is no output tensor.
OnlyLogged ==
  /\ Len(log') = Len(log) + 1
  /\ response_batch' = response_batch
  /\ idx_to_req_id' = idx_to_req_id
  /\ data'.null

C14_EngineRunsOnce ==
  /\ run_calls \in {0, 1}
  /\ pc \in {"load", "load_failed", "ready", "preprocess", "inference"} => run_calls = 0
  /\ pc \in {"inference_failed", "postprocess", "done"} => run_calls = 1
  /\ run_calls = 1 => pos > Len(request_batch)
  /\ (\E r \in DOMAIN response_batch :
        response_batch[r].set /\ ~SetInPreprocess(response_batch[r]))
     => run_calls = 1

\* C14 witness: a batch of two requests, one of them excluded in Preprocess,
\* went through the three stages with one engine run.
C14_Witness ==
  /\ pc = "done"
  /\ Len(request_batch) = 2
  /\ Cardinality(DOMAIN Tracker) = 1
  /\ response_batch[Tracker[0]].code = 200
  /\ run_calls = 1

\* The Response is the missing-payload 500 of lines 99-101.
IsMissingPayloadAnswer(response) ==
  /\ response.set
  /\ response.code = 500
  /\ response.msg = "Empty payload"

\* The row Preprocess builds from the payload bytes, when the tokenizer
\* accepts them.
RowOf(bytes) ==
  FromBlob(PadTokenIds(Encode(VectorToStr(bytes)).value, max_length_), max_length_)

\* C15: payload source selection.  An iteration of the Preprocess loop
\* writes the missing-payload 500 for its request if and only if the request
\* has neither the complete data pair nor the complete body pair; a request
\* with a complete body pair and the data parameter without its data-type
\* header is therefore not answered with it; and the row appended for a
\* request with both pairs complete is built from the data parameter.
C15_PayloadSelection ==
  [][ IsPreprocessStep =>
        /\ IsMissingPayloadAnswer(response_batch'[RequestAt(pos).request_id])
             <=> (~HasDataPair(RequestAt(pos)) /\ ~HasBodyPair(RequestAt(pos)))
        /\ (/\ HasBodyPair(RequestAt(pos))
            /\ kPARAMETER_NAME_DATA \in DOMAIN RequestAt(pos).parameters
            /\ ~HasDataPair(RequestAt(pos)))
           => ~IsMissingPayloadAnswer(response_batch'[RequestAt(pos).request_id])
        /\ (/\ HasDataPair(RequestAt(pos))
            /\ HasBodyPair(RequestAt(pos))
            /\ Len(tokens_ivalue') = Len(tokens_ivalue) + 1)
           => LastRow(tokens_ivalue') =
                RowOf(RequestAt(pos).parameters[kPARAMETER_NAME_DATA])
    ]_vars

\* C16 as stated: when Preprocess returns, every request_id recorded in the
\* tracker has a Response in the response batch that is still the untouched
\* placeholder, for every batch, batches with a repeated request_id included.
C16_TrackedArePlaceholders ==
  pc = "inference" =>
    \A k \in DOMAIN Tracker :
      /\ Tracker[k] \in DOMAIN response_batch
      /\ ~response_batch[Tracker[k]].set

\* C16 as amended: when Preprocess returns, every request_id recorded in the
\* tracker has a Response in the response batch, and that Response is still
\* the untouched placeholder exactly when the last request of the batch that
\* carries the request_id reached row assignment; otherwise it is the 500
\* Preprocess wrote for that last request.
C16_TrackedAreLive ==
  pc = "inference" =>
    \A k \in DOMAIN Tracker :
      /\ Tracker[k] \in DOMAIN response_batch
      /\ IF ReachesRowAssignment(RequestAt(LastWithId(Tracker[k])))
           THEN ~response_batch[Tracker[k]].set
           ELSE SetInPreprocess(response_batch[Tracker[k]])

\* C16 witness: two requests with one request_id, the first without a
\* payload and the second encoded as row 0; Preprocess returned and the
\* Response of the id is the placeholder the second request was given.
C16_Witness ==
  /\ pc = "inference"
  /\ Len(request_batch) = 2
  /\ RequestAt(1).request_id = RequestAt(2).request_id
  /\ EmptyPayload(RequestAt(1))
  /\ DOMAIN Tracker = {0}
  /\ Tracker[0] = RequestAt(2).request_id
  /\ ~response_batch[Tracker[0]].set

\* C17: after every iteration of the Preprocess loop the tracker maps
\* exactly the row indices 0..N-1, N being the number of requests that
\* reached row assignment so far (the rows of the token list), and no entry
\* the tracker already had is overwritten; for every N, N > 256 included.
C17_TrackerIsDense ==
  [][ IsPreprocessStep =>
        /\ DOMAIN Tracker' = 0..(Len(tokens_ivalue') - 1)
        /\ \A k \in DOMAIN Tracker : Tracker'[k] = Tracker[k]
    ]_vars

\* The Preprocess loop over the requests from position p on, run without
\* interruption from the responses, tracker and row cursor in `st`.
RECURSIVE PreprocessAlone(_, _, _)
PreprocessAlone(requests, p, st) ==
  IF p > Len(requests) THEN st
  ELSE LET request == requests[p]
           id == request.request_id
           created == CreateResponse(st.response_batch, id)
       IN
       IF EmptyPayload(request)
         THEN PreprocessAlone(requests, p + 1,
                [st EXCEPT !.response_batch =
                   Put(created, id, SetResponse(created[id], 500, "kCONTENT_TYPE_TEXT",
                                                "Empty payload"))])
       ELSE IF Tokenized(request).how = "threw"
         THEN PreprocessAlone(requests, p + 1,
                [st EXCEPT !.response_batch =
                   Put(created, id,
                       LoadTensorFailure(created[id], Tokenized(request).kind))])
       ELSE PreprocessAlone(requests, p + 1,
              [response_batch |-> created,
               second |-> Put(st.second, st.idx, id),
               idx |-> NextIdx(st.idx)])

\* The Postprocess loop over the tracker keys after `last`, run without
\* interruption on an output tensor of `rows` rows of the loaded engine.
RECURSIVE PostprocessAlone(_, _, _, _)
PostprocessAlone(responses, tracker, last, rows) ==
  LET later == { k \in DOMAIN tracker : k > last } IN
  IF later = {} THEN responses
  ELSE LET k == CHOOSE j \in later : \A i \in later : j <= i
           id == tracker[k]
           row == CHOOSE r \in model.value.computes : TRUE
           answer == IF k >= rows
                       THEN PostprocessFailure(responses[id], "c10::Error")
                       ELSE Decode(responses[id], row, mapping_json_.value).response
       IN PostprocessAlone(Put(responses, id, answer), tracker, k, rows)

\* The Responses a batch ends with when its three stages run one after the
\* other with no other call in between, the engine returning `rows` rows.
ResponsesAlone(requests, rows) ==
  LET pre == PreprocessAlone(requests, 1,
               [response_batch |-> EmptyMap, second |-> EmptyMap, idx |-> 0])
  IN PostprocessAlone(pre.response_batch, pre.second, -1, rows)

\* A call that went through its three stages ended with the Responses of
\* the uninterrupted run of its batch.
EndsAsAlone(call) ==
  call.pc = "done" =>
    call.response_batch = ResponsesAlone(call.request_batch, call.data.value.rows)

\* C18: once LoadModel is over no step of Preprocess, Inference or
\* Postprocess changes max_length, the label mapping, the config, the
\* tokenizer or the engine handle; and of two batch calls in flight on one
\* handler, with their steps interleaved in any order, each call that
\* completes ends with the Responses its batch gets when its stages run
\* uninterrupted (for one engine and the same number of output rows).
C18_InterleavedAsSequential ==
  /\ [][ pc # "load" => UNCHANGED handler_vars ]_vars
  /\ [](EndsAsAlone(ThisCall) /\ EndsAsAlone(parked))

\* C18 witness: two calls in flight at once, one suspended in the middle of
\* its Postprocess loop with its first Response written, the other running
\* in the middle of its Preprocess loop.
C18_Witness ==
  /\ pc = "preprocess"
  /\ Len(request_batch) = 2
  /\ pos = 2
  /\ parked.pc = "postprocess"
  /\ DOMAIN parked.idx_to_req_id.second = {0, 1}
  /\ parked.kv = 0
  /\ parked.response_batch[parked.idx_to_req_id.second[0]].code = 200

\* C19: in every Inference call that follows a successful LoadModel, the
\* variant the model handle is cast to (lines 149-154) is the variant
\* LoadModel constructed (lines 46-54), on either device.
C19_CastMatchesLoadedVariant ==
  pc \in {"inference_failed", "postprocess", "done"} =>
    /\ ~model.null
    /\ runner = model.value.variant
    /\ runner = IF device = "cuda" THEN "AOTIModelContainerRunnerCuda"
                 ELSE "AOTIModelContainerRunnerCpu"

\* C19 witness: a handler loaded on the accelerator ran Inference with the
\* handle cast to the accelerator variant.
C19_Witness ==
  /\ pc = "postprocess"
  /\ device = "cuda"
  /\ model.value.variant = "AOTIModelContainerRunnerCuda"
  /\ runner = "AOTIModelContainerRunnerCuda"

====
